---------------------------- MODULE Spec2Model ----------------------------
(***************************************************************************)
(* Shoe Store API (src/main.py): the seed guard (ensure_seed), the two     *)
(* listing handlers (list_products, featured_products), read_root and      *)
(* test_database, run by a pool of request workers against one document    *)
(* store.  The store helpers imported from the module `database`           *)
(* (create_document, get_documents) and the collection's count_documents   *)
(* are modelled from their contract in spec.md sections 1 and 4.           *)
(***************************************************************************)
EXTENDS Integers, Sequences, FiniteSets, TLC

\* Number of request workers (threads of the server's pool).
NumWorkers == 2
\* Number of listing requests the clients issue in one run.
MaxRequests == 2
\* Largest run of well-formed documents another writer left in the collection.
MaxBulk == 21

Workers == 1..NumWorkers

Min(a, b) == IF a <= b THEN a ELSE b
Max(a, b) == IF a >= b THEN a ELSE b

(***************************************************************************)
(* Python values.  Every value carries its type tag, so that None, a str,  *)
(* a number and a bool stay distinguishable, as they are for dict.get,     *)
(* str(), float(), bool() and truthiness.                                  *)
(***************************************************************************)
None == [t |-> "none"]
Str(s) == [t |-> "str", v |-> s]
Num(n) == [t |-> "num", v |-> n]
Bool(b) == [t |-> "bool", v |-> b]
List(q) == [t |-> "list", v |-> q]
\* A store-assigned identity (the n-th ObjectId the store handed out).
Oid(n) == [t |-> "oid", v |-> n]

\* dict.get(key, default)
Get(it, key, default) == IF key \in DOMAIN it THEN it[key] ELSE default

\* Python truthiness, as used by `if category:`, `x or None` and bool(x).
Truthy(x) ==
    CASE x.t = "none" -> FALSE
      [] x.t = "str"  -> x.v # ""
      [] x.t = "num"  -> x.v # 0
      [] x.t = "bool" -> x.v
      [] x.t = "list" -> x.v # <<>>
      [] OTHER        -> TRUE

\* str(x), as a TLA+ string
PyStr(x) ==
    CASE x.t = "str"  -> x.v
      [] x.t = "none" -> "None"
      [] x.t = "bool" -> IF x.v THEN "True" ELSE "False"
      [] OTHER        -> ToString(x.v)

\* The str values float() parses, with the number each denotes; float() of
\* any other str raises ValueError.
NumericLiteral(s) == s \in {"12", "-3"}
LiteralValue(s) == IF s = "12" THEN 12 ELSE 0 - 3

\* float(x): [ok |-> TRUE, v |-> number] or [ok |-> FALSE] when it raises
\* (TypeError for None or a list, ValueError for a non-numeric str).
PyFloat(x) ==
    CASE x.t = "num"  -> [ok |-> TRUE, v |-> x.v]
      [] x.t = "bool" -> [ok |-> TRUE, v |-> IF x.v THEN 1 ELSE 0]
      [] x.t = "str" /\ NumericLiteral(x.v) -> [ok |-> TRUE, v |-> LiteralValue(x.v)]
      [] OTHER        -> [ok |-> FALSE, v |-> 0]

\* s[:n] for a list s and an int n: a negative n counts from the end.
PySliceTo(s, n) ==
    IF n >= 0 THEN SubSeq(s, 1, Min(n, Len(s)))
    ELSE SubSeq(s, 1, Max(Len(s) + n, 0))

(***************************************************************************)
(* SAMPLE_PRODUCTS                                                         *)
(***************************************************************************)
SAMPLE_PRODUCTS == <<
    [title |-> Str("Air Nova Runner"),
     description |-> Str("Featherlight daily trainer with responsive foam midsole."),
     price |-> Num(149), category |-> Str("running"), in_stock |-> Bool(TRUE),
     image |-> Str("https://images.unsplash.com/photo-1542291026-7eec264c27ff"),
     brand |-> Str("Nova"), colors |-> List(<<"black", "volt", "white">>)],
    [title |-> Str("Atlas Court Pro"),
     description |-> Str("Premium leather court shoe with heritage styling."),
     price |-> Num(179), category |-> Str("lifestyle"), in_stock |-> Bool(TRUE),
     image |-> Str("https://images.unsplash.com/photo-1525966222134-fcfa99b8ae77"),
     brand |-> Str("Atlas"), colors |-> List(<<"white", "navy", "gold">>)],
    [title |-> Str("Storm Glide TR"),
     description |-> Str("Trail-ready outsole and water-repellent upper."),
     price |-> Num(159), category |-> Str("trail"), in_stock |-> Bool(TRUE),
     image |-> Str("https://images.unsplash.com/photo-1608231387042-66d1773070a5"),
     brand |-> Str("Storm"), colors |-> List(<<"slate", "orange", "charcoal">>)],
    [title |-> Str("Pulse React 2"),
     description |-> Str("Max cushioning with dynamic energy return."),
     price |-> Num(199), category |-> Str("running"), in_stock |-> Bool(TRUE),
     image |-> Str("https://images.unsplash.com/photo-1603808033192-6aa3c0d03ff2"),
     brand |-> Str("Pulse"), colors |-> List(<<"crimson", "white", "black">>)] >>

\* len(SAMPLE_PRODUCTS)
NumSamples == Len(SAMPLE_PRODUCTS)

(***************************************************************************)
(* The store collaborator (module database and the product collection).    *)
(***************************************************************************)
\* db["product"].count_documents({})
count_documents(s) == Len(s)

\* create_document("product", p): the store keeps a copy of p under a fresh
\* identity; p itself is left alone.
create_document(s, p) == Append(s, ("_id" :> Oid(Len(s) + 1)) @@ p)

\* A document matches a filter when it holds every key of the filter with
\* an equal value.
Matches(doc, filter) ==
    \A kv \in filter : kv[1] \in DOMAIN doc /\ doc[kv[1]] = kv[2]

\* get_documents("product", filter_dict, limit): up to `limit` matching
\* documents, in the store's order (none for a limit of zero or less).
get_documents(s, filter, limit) ==
    LET hit(d) == Matches(d, filter)
        found == SelectSeq(s, hit)
    IN  SubSeq(found, 1, Min(Max(limit, 0), Len(found)))

\* A stored document without its identity.
Content(doc) == [k \in DOMAIN doc \ {"_id"} |-> doc[k]]

(***************************************************************************)
(* Normalisation and the response model (ProductOut).                      *)
(***************************************************************************)
\* The `obj` dict built from one raw document (lines 111-121 and 135-145);
\* ok is FALSE when float() raises.
Normalize(it) ==
    LET price == PyFloat(Get(it, "price", Num(0)))
        ident == Str(PyStr(Get(it, "_id", Str(""))))
    IN  [ok  |-> price.ok,
         obj |-> [id          |-> IF Truthy(ident) THEN ident ELSE None,
                  title       |-> Get(it, "title", None),
                  description |-> Get(it, "description", None),
                  price       |-> Num(price.v),
                  category    |-> Get(it, "category", Str("shoes")),
                  in_stock    |-> Bool(Truthy(Get(it, "in_stock", Bool(TRUE)))),
                  image       |-> Get(it, "image", None),
                  brand       |-> Get(it, "brand", None),
                  colors      |-> Get(it, "colors", None)]]

IsStr(x) == x.t = "str"
IsOptionalStr(x) == x.t \in {"none", "str"}

\* Mutation of PriceValid: the ge=0 constraint is missing.
PriceValidAnyNumber(x) == x.t = "num"

\* price: float = Field(..., ge=0)
PriceValid(x) == x.t = "num" /\ x.v >= 0

\* ProductOut(**obj) validates: the field types of ProductIn / ProductOut.
Validate(obj) ==
    /\ IsOptionalStr(obj.id)
    /\ IsStr(obj.title)
    /\ IsOptionalStr(obj.description)
    /\ PriceValid(obj.price)
    /\ IsStr(obj.category)
    /\ obj.in_stock.t = "bool"
    /\ IsOptionalStr(obj.image)
    /\ IsOptionalStr(obj.brand)
    /\ obj.colors.t \in {"none", "list"}

\* The loop over `items`: the first item whose coercion or validation raises
\* ends the request with an error; otherwise the list of ProductOut.
Render(items) ==
    LET good == \A k \in 1..Len(items) :
                    LET n == Normalize(items[k]) IN n.ok /\ Validate(n.obj)
    IN  IF good
        THEN [status |-> 200, out |-> [k \in 1..Len(items) |-> Normalize(items[k]).obj]]
        ELSE [status |-> 500, out |-> <<>>]

(***************************************************************************)
(* The handlers' pure parts.                                               *)
(***************************************************************************)
\* Default of list_products' `limit` parameter.
DefaultLimit == 20

\* Mutation of GuardSkips: the `db is None` test is missing.
GuardSkipsNever(handle) == FALSE

\* ensure_seed returns at once when the handle is unset.
GuardSkips(handle) == handle = "unset"

\* Mutations of SeedNeeded: the test is inverted; the loop runs whatever the
\* count; the loop runs while fewer than all samples are stored.
SeedNeededInverted(n) == n # 0
SeedNeededAlways(n) == n >= 0
SeedNeededBelowFull(n) == n < NumSamples

\* ensure_seed inserts when the count it read is zero.
SeedNeeded(n) == n = 0

\* Mutation of SeedDoc: every turn of the loop creates the first sample.
SeedDocFirst(k) == SAMPLE_PRODUCTS[1]

\* The k-th document the insert loop creates.
SeedDoc(k) == SAMPLE_PRODUCTS[k]

\* Mutation of filter_dict: the category is never put in the filter.
filter_dict_empty(category) == {}

\* list_products' filter_dict: a set of <<key, value>> pairs.
filter_dict(category) ==
    IF Truthy(category) THEN {<<"category", category>>} ELSE {}

\* list_products' items: the store's answer, or the sample slice when
\* get_documents raised.
ListItems(s, raised, limit, category) ==
    IF raised THEN PySliceTo(SAMPLE_PRODUCTS, limit)
    ELSE get_documents(s, filter_dict(category), limit)

\* Mutation of FeaturedItems: no limit is applied.
FeaturedItemsUnlimited(s, raised) ==
    IF raised THEN SAMPLE_PRODUCTS ELSE get_documents(s, {}, Len(s))

\* featured_products' items.
FeaturedItems(s, raised) ==
    IF raised THEN PySliceTo(SAMPLE_PRODUCTS, 4)
    ELSE get_documents(s, {}, 4)

(***************************************************************************)
(* State.                                                                  *)
(***************************************************************************)
VARIABLES
    db,          \* the global store handle: "unset" (None) or "handle"
    serial,      \* TRUE when the client issues one request at a time
    store,       \* the product collection, in insertion order
    pc,          \* per worker: "idle", "count", "insert" or "read"
    count,       \* per worker: ensure_seed's `count` (-1 before it is read)
    i,           \* per worker: inserts completed by the seed loop
    caught,      \* per worker: ensure_seed's except branch was taken
    flaky,       \* TRUE when the store's calls may raise
    served,      \* listing requests begun so far
    response     \* the response sent by the step just taken, or NoResponse

vars == <<db, serial, store, pc, count, i, caught, flaky, served, response>>

\* Arguments the requests are drawn from.
Limits == {0 - 1, 0, 2, 5, DefaultLimit}
Categories == {None, Str(""), Str("running"), Str("boots")}
EnvNames == {"DATABASE_URL", "DATABASE_NAME"}

NoResponse ==
    [op |-> "none", status |-> 0, limit |-> 0, category |-> None, filter |-> {},
     raised |-> FALSE, caught |-> FALSE, count |-> 0 - 1, seeded |-> 0,
     out |-> <<>>, info |-> None]

AllIdle == \A w \in Workers : pc[w] = "idle"

\* The state when the server starts against one of the collections `stores`:
\* no request running.
Start(stores) ==
    /\ db \in {"unset", "handle"}
    /\ serial \in BOOLEAN
    /\ store \in stores
    /\ pc = [w \in Workers |-> "idle"]
    /\ count = [w \in Workers |-> 0 - 1]
    /\ i = [w \in Workers |-> 0]
    /\ caught = [w \in Workers |-> FALSE]
    /\ flaky \in BOOLEAN
    /\ served = 0
    /\ response = NoResponse

\* A first deployment: the collection is empty.
Init == Start({<<>>})

(***************************************************************************)
(* ensure_seed, one store call per step.                                   *)
(***************************************************************************)
\* The outcomes of a store call through a set handle: it returns (TRUE) or,
\* when the store is flaky, raises (FALSE).
Returns == IF flaky THEN BOOLEAN ELSE {TRUE}

\* A listing handler is entered and calls ensure_seed, which tests the handle.
\* Both handlers start with this call and read nothing before it.
Call(w) ==
    /\ pc[w] = "idle"
    /\ serial => AllIdle
    /\ served < MaxRequests
    /\ served' = served + 1
    /\ pc' = [pc EXCEPT ![w] = IF GuardSkips(db) THEN "read" ELSE "count"]
    /\ response' = NoResponse
    /\ UNCHANGED <<db, serial, store, count, i, caught, flaky>>

\* count_documents({}) returns or raises; a raise is swallowed.
Count(w) ==
    /\ pc[w] = "count"
    /\ \E ok \in Returns :
         IF ok
         THEN /\ count' = [count EXCEPT ![w] = count_documents(store)]
              /\ pc' = [pc EXCEPT ![w] =
                          IF SeedNeeded(count_documents(store)) THEN "insert" ELSE "read"]
              /\ UNCHANGED caught
         ELSE /\ caught' = [caught EXCEPT ![w] = TRUE]
              /\ pc' = [pc EXCEPT ![w] = "read"]
              /\ UNCHANGED count
    /\ response' = NoResponse
    /\ UNCHANGED <<db, serial, store, i, flaky, served>>

\* One turn of the insert loop: create_document returns or raises; a raise
\* is swallowed and ends the loop.
Insert(w) ==
    /\ pc[w] = "insert"
    /\ \E ok \in Returns :
         IF ok
         THEN /\ store' = create_document(store, SeedDoc(i[w] + 1))
              /\ i' = [i EXCEPT ![w] = i[w] + 1]
              /\ pc' = [pc EXCEPT ![w] =
                          IF i[w] + 1 = NumSamples THEN "read" ELSE "insert"]
              /\ UNCHANGED caught
         ELSE /\ caught' = [caught EXCEPT ![w] = TRUE]
              /\ pc' = [pc EXCEPT ![w] = "read"]
              /\ UNCHANGED <<store, i>>
    /\ response' = NoResponse
    /\ UNCHANGED <<db, serial, count, flaky, served>>

(***************************************************************************)
(* The rest of the listing handlers: read, normalise, respond.  `limit`    *)
(* and `category` are locals the handler first reads here, so this step    *)
(* draws them.                                                             *)
(***************************************************************************)
\* get_documents raises whenever the handle is unset, and may raise otherwise.
Raises == IF db = "unset" THEN {TRUE} ELSE IF flaky THEN BOOLEAN ELSE {FALSE}

Return(w) ==
    /\ pc' = [pc EXCEPT ![w] = "idle"]
    /\ count' = [count EXCEPT ![w] = 0 - 1]
    /\ i' = [i EXCEPT ![w] = 0]
    /\ caught' = [caught EXCEPT ![w] = FALSE]
    /\ UNCHANGED <<db, serial, store, flaky, served>>

list_products(w, limits, categories) ==
    /\ pc[w] = "read"
    /\ \E limit \in limits, category \in categories, raised \in Raises :
         LET r == Render(ListItems(store, raised, limit, category))
         IN  response' =
               [op |-> "list_products", status |-> r.status, limit |-> limit,
                category |-> category, filter |-> filter_dict(category),
                raised |-> raised, caught |-> caught[w], count |-> count[w],
                seeded |-> i[w], out |-> r.out, info |-> None]
    /\ Return(w)

featured_products(w) ==
    /\ pc[w] = "read"
    /\ \E raised \in Raises :
         LET r == Render(FeaturedItems(store, raised))
         IN  response' =
               [op |-> "featured_products", status |-> r.status, limit |-> 4,
                category |-> None, filter |-> {},
                raised |-> raised, caught |-> caught[w], count |-> count[w],
                seeded |-> i[w], out |-> r.out, info |-> None]
    /\ Return(w)

(***************************************************************************)
(* read_root and test_database: one step each, no store write.             *)
(***************************************************************************)
read_root ==
    /\ serial => AllIdle
    /\ response' = [NoResponse EXCEPT !.op = "read_root", !.status = 200,
                      !.info = [message |-> "Shoe Store Backend Running"]]
    /\ UNCHANGED <<db, serial, store, pc, count, i, caught, flaky, served>>

\* The collections the store lists: a collection exists once it holds a document.
Collections(s) == IF s = <<>> THEN <<>> ELSE <<"product">>

\* The response dict of test_database (status marks left out of the strings).
TestInfo(handle, s, listRaises, env) ==
    [backend |-> "Running",
     database |-> IF handle = "unset" THEN "Available but not initialized"
                  ELSE IF listRaises THEN "Connected but Error"
                  ELSE "Connected & Working",
     database_url |-> IF "DATABASE_URL" \in env THEN "Set" ELSE "Not Set",
     database_name |-> IF "DATABASE_NAME" \in env THEN "Set" ELSE "Not Set",
     connection_status |-> IF handle = "unset" THEN "Not Connected" ELSE "Connected",
     collections |-> IF handle = "unset" \/ listRaises THEN <<>>
                     ELSE PySliceTo(Collections(s), 10)]

test_database(envs) ==
    /\ serial => AllIdle
    /\ \E listRaises \in {~ok : ok \in Returns}, env \in envs :
         response' = [NoResponse EXCEPT !.op = "test_database", !.status = 200,
                        !.info = TestInfo(db, store, listRaises, env)]
    /\ UNCHANGED <<db, serial, store, pc, count, i, caught, flaky, served>>

\* The listing handlers, with the request arguments drawn from the given sets.
Listing(limits, categories) ==
    \/ \E w \in Workers : Call(w)
    \/ \E w \in Workers : Count(w)
    \/ \E w \in Workers : Insert(w)
    \/ \E w \in Workers : list_products(w, limits, categories)
    \/ \E w \in Workers : featured_products(w)

\* One client issuing its requests one after another, with every argument.
Next ==
    \/ Listing(Limits, Categories)
    \/ read_root
    \/ test_database(SUBSET EnvNames)
InitSerial == Init /\ serial
Spec == InitSerial /\ [][Next]_vars

\* The listing handlers called with their default arguments.
NextDefault == Listing({DefaultLimit}, {None})

\* Concurrent listing requests against a store whose calls return.
InitRace == Init /\ ~serial /\ db = "handle" /\ ~flaky
SpecRace == InitRace /\ [][NextDefault]_vars

\* The collection after create_document has stored each of `docs` in turn.
RECURSIVE Load(_, _)
Load(s, docs) ==
    IF docs = <<>> THEN s ELSE Load(create_document(s, Head(docs)), Tail(docs))

\* The server starts against the collection earlier runs of it left: a first
\* seed loop that stored its first a samples and a second, racing or later,
\* that stored its first b.
RestartStores ==
    { Load(<<>>, SubSeq(SAMPLE_PRODUCTS, 1, a) \o SubSeq(SAMPLE_PRODUCTS, 1, b)) :
        a \in 0..NumSamples, b \in 0..NumSamples }

InitRestart == Start(RestartStores) /\ serial /\ db = "handle"
SpecRestart == InitRestart /\ [][NextDefault]_vars

\* Documents of another writer: well-formed ones, and ones ProductOut rejects.
Legacy ==
    [title |-> Str("Legacy Boot"), price |-> Num(80), category |-> Str("boots"),
     in_stock |-> Bool(FALSE)]
ForeignDocs ==
    { Legacy,
      [title |-> Str("Bare")],
      [title |-> Str("Quoted"), price |-> Str("12")],
      [title |-> Str("Refund"), price |-> Num(0 - 5)],
      [title |-> Str("Quoted Refund"), price |-> Str("-3")],
      [title |-> Str("Unpriced"), price |-> Str("n/a")],
      [price |-> Num(10), category |-> Str("boots")] }

\* At most one foreign document.
AtMostOne == {<<>>} \cup {<<d>> : d \in ForeignDocs}

\* The server starts against a collection another writer filled: a run of up
\* to MaxBulk well-formed documents, with a foreign document before and after.
ExtStores ==
    { Load(<<>>, head \o [k \in 1..n |-> Legacy] \o tail) :
        head \in AtMostOne, n \in 0..MaxBulk, tail \in AtMostOne }

InitExt == Start(ExtStores) /\ serial /\ db = "handle"
SpecExt == InitExt /\ [][NextDefault]_vars

(***************************************************************************)
(* Properties.                                                             *)
(***************************************************************************)
\* The titles a collection holds.
Titles(s) == {Get(s[k], "title", None) : k \in 1..Len(s)}
\* The titles of the first k samples.
SampleTitles(k) == {SAMPLE_PRODUCTS[j].title : j \in 1..k}
\* A response object showing exactly the sample p, without identity.
Shows(obj, p) == obj.id = None /\ \A f \in DOMAIN p : obj[f] = p[f]
\* The response is a listing handler's.
Listed == response.op \in {"list_products", "featured_products"}

\* C1 as claimed: a listing request whose ensure_seed counted an empty
\* collection reaches its read with all four sample titles stored, whatever
\* the create_document calls did.
C1_SeedBeforeRead ==
    \A w \in Workers :
        pc[w] = "read" /\ count[w] = 0 => SampleTitles(NumSamples) \subseteq Titles(store)

\* C1 as amended: such a request reaches its read with the title of every
\* sample whose create_document returned; these are all four when no call
\* raised, and fewer when one did.
C1_SeedBeforeReadAmended ==
    \A w \in Workers :
        pc[w] = "read" /\ count[w] = 0 =>
            /\ SampleTitles(i[w]) \subseteq Titles(store)
            /\ caught[w] <=> i[w] < NumSamples

C1_Witness ==
    \E w \in Workers :
        pc[w] = "read" /\ count[w] = 0 /\ ~caught[w] /\ Len(store) = NumSamples

\* C2: a listing request whose ensure_seed ran against a set handle with no
\* store call raising reaches its read with all four sample titles stored,
\* also when an earlier seed attempt failed.
C2_SeedRetried ==
    \A w \in Workers :
        pc[w] = "read" /\ count[w] >= 0 /\ ~caught[w] =>
            SampleTitles(NumSamples) \subseteq Titles(store)

\* C3: from an empty collection and with a store whose calls return, once a
\* second ensure_seed has returned the distinct titles stored are exactly
\* the four sample titles.
C3_SeedTwiceSameTitles ==
    \A w \in Workers :
        ~flaky /\ db = "handle" /\ served >= 2 /\ pc[w] = "read" =>
            Titles(store) = SampleTitles(NumSamples)

C3_Witness ==
    \E w \in Workers :
        ~flaky /\ served = 2 /\ pc[w] = "read" /\ count[w] = NumSamples

\* C4: when get_documents raises in list_products the response is the first
\* `limit` samples in order, whatever the category: none for a limit of zero
\* or less, all four for a limit above four.
C4_FallbackFirstLimit ==
    response.op = "list_products" /\ response.raised =>
        LET n == Min(Max(response.limit, 0), NumSamples)
        IN  /\ response.status = 200
            /\ Len(response.out) = n
            /\ \A k \in 1..n : Shows(response.out[k], SAMPLE_PRODUCTS[k])

\* C5: a list_products response read from the store with a non-empty
\* category holds only products of that category; with no category or the
\* empty one the filter is empty, so a limit that covers the collection
\* returns every document.
C5_CategoryFilter ==
    response.op = "list_products" /\ ~response.raised =>
        IF response.category.t = "str" /\ response.category.v # ""
        THEN \A k \in 1..Len(response.out) :
                 response.out[k].category = response.category
        ELSE /\ response.filter = {}
             /\ (response.limit >= Len(store) => Len(response.out) = Len(store))

C5_Witness ==
    /\ response.op = "list_products"
    /\ ~response.raised
    /\ response.category = Str("running")
    /\ Len(response.out) = 2
    /\ Len(store) = NumSamples

\* C6: featured_products answers with min(4, stored documents) products,
\* the first ones in store order, or with the first four samples when
\* get_documents raised.
C6_FeaturedCount ==
    response.op = "featured_products" =>
        /\ response.status = 200
        /\ IF response.raised
           THEN /\ Len(response.out) = 4
                /\ \A k \in 1..4 : Shows(response.out[k], SAMPLE_PRODUCTS[k])
           ELSE /\ Len(response.out) = Min(4, Len(store))
                /\ \A k \in 1..Len(response.out) :
                       response.out[k].title = store[k].title

C6_Witness ==
    /\ response.op = "featured_products"
    /\ ~response.raised
    /\ Len(store) > 4
    /\ Len(response.out) = 4

\* A stored document ProductOut must reject: no title, or a price that is
\* negative or not a number.
Unservable(doc) ==
    \/ "title" \notin DOMAIN doc
    \/ /\ "price" \in DOMAIN doc
       /\ \/ ~PyFloat(doc.price).ok
          \/ PyFloat(doc.price).v < 0

\* C7: list_products with no arguments answers with at most 20 products,
\* each with a title and a price >= 0; when one of the documents it read is
\* unservable the request fails and returns nothing.
C7_DefaultListValid ==
    LET noArguments == /\ response.op = "list_products"
                       /\ response.limit = DefaultLimit
                       /\ response.category = None
        readUnservable == /\ ~response.raised
                          /\ \E k \in 1..Min(20, Len(store)) : Unservable(store[k])
        served20Valid == /\ Len(response.out) <= 20
                         /\ \A k \in 1..Len(response.out) :
                                /\ response.out[k].title.t = "str"
                                /\ response.out[k].price.t = "num"
                                /\ response.out[k].price.v >= 0
    IN  noArguments =>
            /\ (response.status = 200 => served20Valid)
            /\ (readUnservable => response.status = 500 /\ response.out = <<>>)

C7_Witness ==
    /\ response.op = "list_products"
    /\ response.status = 200
    /\ Len(response.out) = 20
    /\ Len(store) > 20
    /\ Unservable(store[Len(store)])

\* C8: with the handle unset ensure_seed makes no store call (no worker is
\* ever at the count or in the insert loop, nothing is stored); a swallowed
\* exception lets the handler go on to its read, and the request is answered.
C8_GuardNeverFails ==
    /\ (db = "unset" =>
          /\ store = <<>>
          /\ \A w \in Workers :
                 pc[w] \in {"idle", "read"} /\ count[w] = 0 - 1 /\ i[w] = 0 /\ ~caught[w])
    /\ \A w \in Workers : caught[w] => pc[w] = "read"
    /\ (Listed /\ response.caught => response.status = 200)

C8_Witness == Listed /\ response.caught /\ response.status = 200 /\ response.seeded = 1

\* C9: under any interleaving every stored record is one of the four
\* samples, and a request that counted a non-empty collection is not in the
\* insert loop and has inserted nothing.
C9_RaceKeepsSamples ==
    /\ \A k \in 1..Len(store) :
           \E j \in 1..NumSamples : Content(store[k]) = SAMPLE_PRODUCTS[j]
    /\ \A w \in Workers : count[w] > 0 => pc[w] # "insert" /\ i[w] = 0

\* Two racing first requests have both seeded: duplicate sample rows.
C9_Witness ==
    /\ Len(store) > NumSamples
    /\ \E j, k \in 1..Len(store) : j # k /\ Content(store[j]) = Content(store[k])

\* C10: without interleaving, no step updates or deletes a stored record;
\* a step that writes is a create_document of a seed loop that counted an
\* empty collection and wrote everything stored so far; the collection
\* never exceeds the four samples.
C10_ReadOnlyAfterSeed ==
    [][ /\ Len(store) <= Len(store')
        /\ SubSeq(store', 1, Len(store)) = store
        /\ (store' # store =>
              \E w \in Workers :
                  /\ pc[w] = "insert" /\ count[w] = 0 /\ i[w] = Len(store)
                  /\ store' = create_document(store, SAMPLE_PRODUCTS[i[w] + 1]))
        /\ Len(store') <= NumSamples ]_vars

C10_Witness ==
    /\ Len(store) = NumSamples
    /\ response.op = "list_products"
    /\ response.count = NumSamples

=============================================================================
